---- MODULE Spec2Model ----
(***************************************************************************)
(* Model of CVOfflineCheck_v3.py: the calendar window, the report          *)
(* selector with its date validator, the PDF locator and the audit         *)
(* pipeline check_pdf_status.                                              *)
(*                                                                         *)
(* Python str values are sequences of one-character strings.  A datetime   *)
(* is a number of hours: 24 * (proleptic Gregorian ordinal) + hour.        *)
(* None is the empty sequence and a present value x is <<x>>.              *)
(***************************************************************************)
EXTENDS Integers, Sequences, FiniteSets, TLC

VARIABLES pc, current_date, check_date, expected_weekdays, expected_dates,
          folder, sel_i, cv, sub, error_messages, combined_df, filtered_df,
          row_i, pdf_status, tree, output, output0, writes, raised

vars == <<pc, current_date, check_date, expected_weekdays, expected_dates,
          folder, sel_i, cv, sub, error_messages, combined_df, filtered_df,
          row_i, pdf_status, tree, output, output0, writes, raised>>

None == <<>>
Some(x) == <<x>>

(***************************************************************************)
(* str methods used by the program                                         *)
(***************************************************************************)
UpperChars == <<"A","B","C","D","E","F","G","H","I","J","K","L","M",
                "N","O","P","Q","R","S","T","U","V","W","X","Y","Z">>
LowerChars == <<"a","b","c","d","e","f","g","h","i","j","k","l","m",
                "n","o","p","q","r","s","t","u","v","w","x","y","z">>

LowerChar(c) ==
    IF \E i \in 1..26 : UpperChars[i] = c
    THEN LowerChars[CHOOSE i \in 1..26 : UpperChars[i] = c]
    ELSE c

\* str.lower()
lower(s) == [i \in 1..Len(s) |-> LowerChar(s[i])]

IsSpace(c) == c \in {" ", "\t"}

\* str.strip(): leading and trailing whitespace removed
strip(s) ==
    IF \A i \in 1..Len(s) : IsSpace(s[i]) THEN <<>>
    ELSE LET a == CHOOSE i \in 1..Len(s) :
                    ~IsSpace(s[i]) /\ \A j \in 1..(i-1) : IsSpace(s[j])
             b == CHOOSE i \in 1..Len(s) :
                    ~IsSpace(s[i]) /\ \A j \in (i+1)..Len(s) : IsSpace(s[j])
         IN  SubSeq(s, a, b)

\* s occurs in t at position i
OccursAt(s, t, i) == i + Len(s) - 1 <= Len(t) /\ SubSeq(t, i, i + Len(s) - 1) = s

\* the Python expression  s in t  on strings
contains(t, s) == \E i \in 1..(Len(t) + 1) : OccursAt(s, t, i)

\* str.startswith / str.endswith
startswith(t, s) == OccursAt(s, t, 1)
endswith(t, s) == Len(s) <= Len(t) /\ SubSeq(t, Len(t) - Len(s) + 1, Len(t)) = s

\* str.replace(old, ''): every non-overlapping occurrence of old, scanned
\* from the left, is removed
RECURSIVE remove_all(_, _)
remove_all(t, old) ==
    IF t = <<>> THEN <<>>
    ELSE IF OccursAt(old, t, 1)
         THEN remove_all(SubSeq(t, Len(old) + 1, Len(t)), old)
         ELSE <<Head(t)>> \o remove_all(Tail(t), old)

\* membership in a Python list
InList(x, l) == \E i \in 1..Len(l) : l[i] = x

\* reversed(list)
reversed(l) == [i \in 1..Len(l) |-> l[Len(l) + 1 - i]]

(***************************************************************************)
(* datetime arithmetic                                                     *)
(***************************************************************************)
IsLeap(y) == y % 4 = 0 /\ (y % 100 # 0 \/ y % 400 = 0)

DaysInMonth(y, m) ==
    IF m = 2 THEN (IF IsLeap(y) THEN 29 ELSE 28)
    ELSE IF m \in {4, 6, 9, 11} THEN 30 ELSE 31

DaysBeforeYear(y) ==
    LET p == y - 1 IN p * 365 + (p \div 4) - (p \div 100) + (p \div 400)

RECURSIVE DaysBeforeMonth(_, _)
DaysBeforeMonth(y, m) ==
    IF m = 1 THEN 0 ELSE DaysBeforeMonth(y, m - 1) + DaysInMonth(y, m - 1)

\* date(y, m, d).toordinal()
ymd2ord(y, m, d) == DaysBeforeYear(y) + DaysBeforeMonth(y, m) + d

\* date.fromordinal(n) as <<year, month, day>>
ord2ymd(n) ==
    LET g == ((n * 400) \div 146097) + 1
        y == CHOOSE c \in (g - 1)..(g + 1) :
                 DaysBeforeYear(c) < n /\ n <= DaysBeforeYear(c + 1)
        r == n - DaysBeforeYear(y)
        m == CHOOSE c \in 1..12 :
                 DaysBeforeMonth(y, c) < r /\ r <= DaysBeforeMonth(y, c) + DaysInMonth(y, c)
    IN  <<y, m, r - DaysBeforeMonth(y, m)>>

\* the calendar day (ordinal) of a datetime
DayOf(dt) == dt \div 24

\* datetime.weekday(): Monday = 0 ... Sunday = 6
weekday(dt) == (DayOf(dt) + 6) % 7

\* dt - timedelta(days=1)
minus_one_day(dt) == dt - 24

Digits == <<"0","1","2","3","4","5","6","7","8","9">>
Digit(n) == Digits[n + 1]
Pad2(n) == <<Digit((n \div 10) % 10), Digit(n % 10)>>
Pad4(n) == <<Digit((n \div 1000) % 10), Digit((n \div 100) % 10)>> \o Pad2(n)

\* dt.strftime('%Y-%m-%d')
strftime(dt) ==
    LET t == ord2ymd(DayOf(dt))
    IN  Pad4(t[1]) \o <<"-">> \o Pad2(t[2]) \o <<"-">> \o Pad2(t[3])

IsDigit(c) == \E i \in 1..10 : Digits[i] = c
DigitVal(c) == (CHOOSE i \in 1..10 : Digits[i] = c) - 1
RECURSIVE NumVal(_)
NumVal(s) == IF s = <<>> THEN 0
             ELSE 10 * NumVal(SubSeq(s, 1, Len(s) - 1)) + DigitVal(s[Len(s)])

\* the date texts the reports carry: "YYYY-MM-DD" or "YYYY-MM-DD HH:MM"
WellFormedDate(s) ==
    /\ Len(s) \in {10, 16}
    /\ \A i \in {1, 2, 3, 4, 6, 7, 9, 10} : IsDigit(s[i])
    /\ s[5] = "-" /\ s[8] = "-"
    /\ Len(s) = 16 =>
         /\ s[11] = " " /\ s[14] = ":"
         /\ \A i \in {12, 13, 15, 16} : IsDigit(s[i])
         /\ NumVal(SubSeq(s, 12, 13)) < 24 /\ NumVal(SubSeq(s, 15, 16)) < 60
    /\ NumVal(SubSeq(s, 1, 4)) >= 1
    /\ NumVal(SubSeq(s, 6, 7)) \in 1..12
    /\ NumVal(SubSeq(s, 9, 10)) \in
          1..DaysInMonth(NumVal(SubSeq(s, 1, 4)), NumVal(SubSeq(s, 6, 7)))

\* the datetime a well-formed date text denotes
ParseDate(s) ==
    24 * ymd2ord(NumVal(SubSeq(s, 1, 4)), NumVal(SubSeq(s, 6, 7)), NumVal(SubSeq(s, 9, 10)))
    + (IF Len(s) = 16 THEN NumVal(SubSeq(s, 12, 13)) ELSE 0)

(***************************************************************************)
(* Calendar window: get_weekday_abbreviation and                           *)
(* get_expected_weekdays_and_dates                                         *)
(***************************************************************************)
weekdays == << <<"M","o","n">>, <<"T","u","e">>, <<"W","e","d">>, <<"T","h","u">>,
               <<"F","r","i">>, <<"S","a","t">>, <<"S","u","n">> >>

get_weekday_abbreviation(date) == weekdays[weekday(date) + 1]

\* the number of entries the while loop collects
WindowSize == 5

\* the test  check_date.weekday() < 5  (IsWeekdayOrSaturday: the test
\* written with <=, a fault variant)
IsWeekdayOrSaturday(date) == weekday(date) <= 5
IsWeekday(date) == weekday(date) < 5

\* the loop test  len(expected_weekdays) < 5
WindowIncomplete(w) == Len(w) < WindowSize

\* one pass through the body of the while loop, on the loop's three locals
WindowIter(st) ==
    [check_date |-> minus_one_day(st.check_date),
     expected_weekdays |->
         IF IsWeekday(st.check_date)
         THEN Append(st.expected_weekdays, get_weekday_abbreviation(st.check_date))
         ELSE st.expected_weekdays,
     expected_dates |->
         IF IsWeekday(st.check_date)
         THEN Append(st.expected_dates, strftime(st.check_date))
         ELSE st.expected_dates]

RECURSIVE WindowLoop(_)
WindowLoop(st) ==
    IF WindowIncomplete(st.expected_weekdays) THEN WindowLoop(WindowIter(st)) ELSE st

\* the function as a whole: <<expected_weekdays, expected_dates>>
get_expected_weekdays_and_dates(date) ==
    LET st == WindowLoop([check_date |-> date, expected_weekdays |-> <<>>,
                          expected_dates |-> <<>>])
    IN  <<st.expected_weekdays, st.expected_dates>>

(***************************************************************************)
(* Report tables.  A cell is a string, a missing value (NaN) or a number;  *)
(* a DataFrame is its column names and its rows.                           *)
(***************************************************************************)
Str(s) == [k |-> "str", s |-> s]
NaN == [k |-> "nan", s |-> <<>>]
Num(s) == [k |-> "num", s |-> s]

DataFrame(cols, rows) == [columns |-> cols, rows |-> rows]

\* DataFrame.empty
df_empty(df) == Len(df.columns) = 0 \/ Len(df.rows) = 0

sdate == <<"d","a","t","e">>

\* 'date' in col.lower()
IsDateColumn(col) == contains(lower(col), sdate)

\* the for loop with break: the first column whose name contains "date",
\* as an index, or None  (find_date_column_last: the loop without its
\* break, a fault variant)
find_date_column_last(df) ==
    IF \E c \in 1..Len(df.columns) : IsDateColumn(df.columns[c])
    THEN Some(CHOOSE c \in 1..Len(df.columns) :
                 /\ IsDateColumn(df.columns[c])
                 /\ \A b \in (c+1)..Len(df.columns) : ~IsDateColumn(df.columns[b]))
    ELSE None
find_date_column(df) ==
    IF \E c \in 1..Len(df.columns) : IsDateColumn(df.columns[c])
    THEN Some(CHOOSE c \in 1..Len(df.columns) :
                 /\ IsDateColumn(df.columns[c])
                 /\ \A b \in 1..(c-1) : ~IsDateColumn(df.columns[b]))
    ELSE None

\* pd.to_datetime on one cell raises for a text that is no date
CellParses(cell) == cell.k = "str" => WellFormedDate(cell.s)

\* pd.to_datetime on one cell: a date text is parsed, a number counts
\* nanoseconds from 1970-01-01; NaN becomes NaT and is left out
EpochDay == ymd2ord(1970, 1, 1)
CellDatetime(cell) == IF cell.k = "str" THEN ParseDate(cell.s) ELSE 24 * EpochDay

SetMax(S) == CHOOSE x \in S : \A y \in S : y <= x

\* the values of column c that are not NaN, after pd.to_datetime
ColumnDatetimes(df, c) ==
    {CellDatetime(df.rows[r][c]) : r \in {q \in 1..Len(df.rows) : df.rows[q][c].k # "nan"}}

Result(valid, date, msg, exc) ==
    [is_valid |-> valid, actual_date |-> date, error_msg |-> msg, exc |-> exc]

\* the body of the try block: to_datetime, max, strftime, the membership
\* test.  exc is the exception the body raises, if any.
try_body(df, c, dates) ==
    IF \E r \in 1..Len(df.rows) : ~CellParses(df.rows[r][c])
    THEN Result(FALSE, None, "", Some("to_datetime"))
    ELSE IF ColumnDatetimes(df, c) = {}
    THEN Result(FALSE, None, "", Some("NaT.strftime"))
    ELSE LET actual_date == strftime(SetMax(ColumnDatetimes(df, c)))
         IN  IF InList(actual_date, dates)
             THEN Result(TRUE, Some(actual_date), "", None)
             ELSE Result(FALSE, Some(actual_date), "does not match expected dates", None)

\* except Exception as e: return False, None, "Error parsing dates: ..."
\* (except_missing: the body without the handler, a fault variant)
except_missing(r) == r
except_Exception(r) ==
    IF r.exc # None THEN Result(FALSE, None, "Error parsing dates", None) ELSE r

validate_report_date(df, dates) ==
    IF df_empty(df) THEN Result(FALSE, None, "Report is empty", None)
    ELSE IF find_date_column(df) = None
    THEN Result(FALSE, None, "No date column found in report", None)
    ELSE except_Exception(try_body(df, find_date_column(df)[1], dates))

(***************************************************************************)
(* Report selector: find_and_validate_report                               *)
(*                                                                         *)
(* The os.listdir at the top of the function only prints; its exception    *)
(* is caught and nothing below reads its result, so it is left out.        *)
(* validate_report_date replaces the date column of df by datetimes in     *)
(* place; the pipeline reads only Equipment Name and Equipment Type of the *)
(* returned frame, so the frame is kept as loaded.                         *)
(***************************************************************************)
sCompositeView == <<"C","o","m","p","o","s","i","t","e","V","i","e","w">>
sSubstation == <<"S","u","b","s","t","a","t","i","o","n">>
sDiff == <<"_","D","i","f","f","_">>
sCsv == <<".","c","s","v">>

\* f"{report_type}_Diff_{weekday}.csv"
report_filename(report_type, day) == report_type \o sDiff \o day \o sCsv

\* os.path.exists(os.path.join(diffreport_folder, name))
path_exists(dir, name) == name \in DOMAIN dir

\* a file of the reports folder: pd.read_csv either yields a DataFrame or
\* raises (an empty or malformed file)
File(df) == [loadable |-> TRUE, df |-> df]
Unreadable == [loadable |-> FALSE, df |-> DataFrame(<<>>, <<>>)]

\* the triple find_and_validate_report returns
Found(df, name, date) == [df |-> Some(df), file |-> Some(name), date |-> Some(date)]
NotFound == [df |-> None, file |-> None, date |-> None]

\* the order in which the for loop takes the weekday labels
probe_order(w) == reversed(w)

\* the report type of the selector call the pipeline is in
report_type_at(p) == IF p = "select_cv" THEN sCompositeView ELSE sSubstation

\* the file the loop is looking at
candidate == report_filename(report_type_at(pc), probe_order(expected_weekdays)[sel_i])

\* return of find_and_validate_report into check_pdf_status
SelectorReturn(r) ==
    /\ IF pc = "select_cv"
       THEN cv' = r /\ sub' = sub /\ pc' = "select_sub"
       ELSE sub' = r /\ cv' = cv /\ pc' = "validate"
    /\ sel_i' = 1
    /\ raised' = raised

\* one pass through the body of the for loop over the weekday labels
Probe ==
    /\ pc \in {"select_cv", "select_sub"}
    /\ sel_i <= Len(probe_order(expected_weekdays))
    /\ IF ~path_exists(folder, candidate)
       THEN sel_i' = sel_i + 1 /\ UNCHANGED <<pc, cv, sub, raised>>
       ELSE IF ~folder[candidate].loadable
       THEN pc' = "Raised" /\ raised' = "read_csv" /\ UNCHANGED <<sel_i, cv, sub>>
       ELSE LET df == folder[candidate].df
                v == validate_report_date(df, expected_dates)
            IN  IF v.exc # None
                THEN pc' = "Raised" /\ raised' = "validate_report_date"
                     /\ UNCHANGED <<sel_i, cv, sub>>
                ELSE IF v.is_valid
                THEN SelectorReturn(Found(df, candidate, v.actual_date[1]))
                ELSE sel_i' = sel_i + 1 /\ UNCHANGED <<pc, cv, sub, raised>>
    /\ UNCHANGED <<current_date, check_date, expected_weekdays, expected_dates, folder,
                   error_messages, combined_df, filtered_df, row_i, pdf_status, tree,
                   output, output0, writes>>

\* the loop is exhausted: return None, None, None
SelectorReturnNone ==
    /\ pc \in {"select_cv", "select_sub"}
    /\ sel_i > Len(probe_order(expected_weekdays))
    /\ SelectorReturn(NotFound)
    /\ UNCHANGED <<current_date, check_date, expected_weekdays, expected_dates, folder,
                   error_messages, combined_df, filtered_df, row_i, pdf_status, tree,
                   output, output0, writes>>

(***************************************************************************)
(* Calendar window inside check_pdf_status, one loop pass per step         *)
(***************************************************************************)
WindowStep ==
    /\ pc = "window"
    /\ WindowIncomplete(expected_weekdays)
    /\ LET st == WindowIter([check_date |-> check_date,
                             expected_weekdays |-> expected_weekdays,
                             expected_dates |-> expected_dates])
       IN  /\ check_date' = st.check_date
           /\ expected_weekdays' = st.expected_weekdays
           /\ expected_dates' = st.expected_dates
    /\ UNCHANGED <<pc, current_date, folder, sel_i, cv, sub, error_messages, combined_df,
                   filtered_df, row_i, pdf_status, tree, output, output0, writes, raised>>

WindowReturn ==
    /\ pc = "window"
    /\ ~WindowIncomplete(expected_weekdays)
    /\ pc' = "select_cv"
    /\ sel_i' = 1
    /\ UNCHANGED <<current_date, check_date, expected_weekdays, expected_dates, folder,
                   cv, sub, error_messages, combined_df, filtered_df, row_i, pdf_status,
                   tree, output, output0, writes, raised>>

(***************************************************************************)
(* PDF locator: find_pdf over os.walk                                      *)
(***************************************************************************)
sPdf == <<".","p","d","f">>
sSep == <<"/">>

\* the search root and the directories under it
pdf_base_path == <<"P">>
DirA == <<"P","/","A">>
DirB == <<"P","/","B">>
DirC == <<"P","/","A","/","C">>
Dirs == {pdf_base_path, DirA, DirB, DirC}
SubDirs(d) == IF d = pdf_base_path THEN {DirA, DirB}
              ELSE IF d = DirA THEN {DirC} ELSE {}

\* os.path.join(root, file)
path_join(root, file) == root \o sSep \o file

\* the orders in which a directory listing may come
Perms(X) == {f \in [1..Cardinality(X) -> X] :
                \A i, j \in 1..Cardinality(X) : i # j => f[i] # f[j]}

\* os.walk(top), flattened to the <<root, file>> pairs in the order the two
\* nested for loops meet them: a directory's own files, then each of its
\* subdirectories; the listing order is the file system's
RECURSIVE WalksFrom(_, _), WalksOfDirs(_, _)
WalksOfDirs(t, ds) ==
    IF ds = <<>> THEN {<<>>}
    ELSE {a \o b : a \in WalksFrom(t, Head(ds)), b \in WalksOfDirs(t, Tail(ds))}
WalksFrom(t, d) ==
    {[i \in 1..Len(fs) |-> <<d, fs[i]>>] \o rest :
        fs \in Perms(t.files[d]),
        rest \in UNION {WalksOfDirs(t, ds) : ds \in Perms(SubDirs(d))}}

\* a walk of a root that does not exist yields nothing
\* (os_walk_top_only: the listing of the root alone, a fault variant)
os_walk_top_only(t) ==
    IF t.exists
    THEN {[i \in 1..Len(fs) |-> <<pdf_base_path, fs[i]>>] : fs \in Perms(t.files[pdf_base_path])}
    ELSE {<<>>}
os_walk(t) == IF t.exists THEN WalksFrom(t, pdf_base_path) ELSE {<<>>}

\* the two tests on one file name, for the stripped equipment name
name_matches(file, clean) ==
    /\ endswith(lower(file), sPdf)
    /\ \/ contains(lower(file), lower(clean))
       \/ remove_all(lower(file), sPdf) = lower(clean)

\* find_pdf along one walk: the path of the first file that matches, or None
find_pdf(walk, equipment_name) ==
    LET equipment_name_clean == strip(equipment_name.s)
        hits == {i \in 1..Len(walk) : name_matches(walk[i][2], equipment_name_clean)}
    IN  IF hits = {} THEN None
        ELSE LET i == CHOOSE h \in hits : \A g \in hits : h <= g
             IN  path_join(walk[i][1], walk[i][2])

(***************************************************************************)
(* Audit pipeline: check_pdf_status after the two selector calls           *)
(***************************************************************************)
sEquipmentName == <<"E","q","u","i","p","m","e","n","t"," ","N","a","m","e">>
sEquipmentType == <<"E","q","u","i","p","m","e","n","t"," ","T","y","p","e">>
sCircuitBreaker == <<"C","i","r","c","u","i","t"," ","B","r","e","a","k","e","r">>
sSwitch == <<"S","w","i","t","c","h">>

\* validation_failed after the two  if ... is None  tests
\* (validation_failed_both: set only when both are None, a fault variant)
validation_failed_both(cv_df, sub_df) == cv_df = None /\ sub_df = None
validation_failed(cv_df, sub_df) == cv_df = None \/ sub_df = None

\* one entry of error_messages: the category it starts with and the
\* weekday labels it lists
Message(category) == [category |-> category, weekdays |-> expected_weekdays]

Validate ==
    /\ pc = "validate"
    /\ error_messages' =
           (IF cv.df = None THEN <<Message(sCompositeView)>> ELSE <<>>)
           \o (IF sub.df = None THEN <<Message(sSubstation)>> ELSE <<>>)
    /\ pc' = IF validation_failed(cv.df, sub.df) THEN "AbortedMissingReports" ELSE "combine"
    /\ UNCHANGED <<current_date, check_date, expected_weekdays, expected_dates, folder,
                   sel_i, cv, sub, combined_df, filtered_df, row_i, pdf_status, tree,
                   output, output0, writes, raised>>

\* pd.concat([a, b], ignore_index=True): the union of the columns in order
\* of appearance, a's rows then b's, NaN where a frame lacks a column
ColIndex(df, col) == CHOOSE k \in 1..Len(df.columns) : df.columns[k] = col
Realign(df, cols) ==
    [r \in 1..Len(df.rows) |->
        [c \in 1..Len(cols) |->
            IF InList(cols[c], df.columns) THEN df.rows[r][ColIndex(df, cols[c])] ELSE NaN]]
concat(a, b) ==
    LET cols == a.columns \o SelectSeq(b.columns, LAMBDA col : ~InList(col, a.columns))
    IN  DataFrame(cols, Realign(a, cols) \o Realign(b, cols))

required_columns == <<sEquipmentName, sEquipmentType>>
missing_columns(df) == SelectSeq(required_columns, LAMBDA col : ~InList(col, df.columns))

Combine ==
    /\ pc = "combine"
    /\ combined_df' = concat(cv.df[1], sub.df[1])
    /\ pc' = IF missing_columns(combined_df') # <<>> THEN "AbortedMissingColumns" ELSE "filter"
    /\ UNCHANGED <<current_date, check_date, expected_weekdays, expected_dates, folder,
                   sel_i, cv, sub, error_messages, filtered_df, row_i, pdf_status, tree,
                   output, output0, writes, raised>>

\* Series.isin(['Circuit Breaker', 'Switch']) on one cell
\* (isin_first_only: the second type forgotten, a fault variant)
accepted_types == <<sCircuitBreaker, sSwitch>>
isin_first_only(cell) == cell.k = "str" /\ cell.s = accepted_types[1]
isin(cell) == cell.k = "str" /\ InList(cell.s, accepted_types)

\* combined_df[combined_df['Equipment Type'].isin([...])]
filter_rows(df) ==
    DataFrame(df.columns,
              SelectSeq(df.rows, LAMBDA row : isin(row[ColIndex(df, sEquipmentType)])))

\* the filter step with the empty result saved before the return (fault variant)
FilterWritesEmpty ==
    /\ pc = "filter"
    /\ filtered_df' = filter_rows(combined_df)
    /\ IF df_empty(filtered_df')
       THEN pc' = "AbortedNoMatchingEquipment" /\ output' = Some(<<>>) /\ writes' = writes + 1
       ELSE pc' = "check" /\ UNCHANGED <<output, writes>>
    /\ row_i' = 1
    /\ pdf_status' = <<>>
    /\ UNCHANGED <<current_date, check_date, expected_weekdays, expected_dates, folder,
                   sel_i, cv, sub, error_messages, combined_df, tree, output0, raised>>
Filter ==
    /\ pc = "filter"
    /\ filtered_df' = filter_rows(combined_df)
    /\ pc' = IF df_empty(filtered_df') THEN "AbortedNoMatchingEquipment" ELSE "check"
    /\ row_i' = 1
    /\ pdf_status' = <<>>
    /\ UNCHANGED <<current_date, check_date, expected_weekdays, expected_dates, folder,
                   sel_i, cv, sub, error_messages, combined_df, tree, output, output0,
                   writes, raised>>

\* the dict appended to pdf_status
Entry(name, type, status, path) ==
    [name |-> name, type |-> type, status |-> status, path |-> path]

\* one pass through the body of  for idx, row in filtered_df.iterrows()
CheckRow ==
    /\ pc = "check"
    /\ row_i <= Len(filtered_df.rows)
    /\ LET row == filtered_df.rows[row_i]
           equipment_name == row[ColIndex(filtered_df, sEquipmentName)]
           equipment_type == row[ColIndex(filtered_df, sEquipmentType)]
       IN  IF equipment_name.k # "str"
           THEN \* equipment_name.strip() on a float or an int
                pc' = "Raised" /\ raised' = "find_pdf" /\ UNCHANGED <<row_i, pdf_status>>
           ELSE \E walk \in os_walk(tree) :
                   LET pdf_path == find_pdf(walk, equipment_name)
                   IN  /\ pdf_status' = Append(pdf_status,
                              IF pdf_path # <<>>
                              THEN Entry(equipment_name, equipment_type, "Exists", pdf_path)
                              ELSE Entry(equipment_name, equipment_type, "Missing", <<>>))
                       /\ row_i' = row_i + 1
                       /\ UNCHANGED <<pc, raised>>
    /\ UNCHANGED <<current_date, check_date, expected_weekdays, expected_dates, folder,
                   sel_i, cv, sub, error_messages, combined_df, filtered_df, tree,
                   output, output0, writes>>

\* result_df.to_csv(output_path, index=False) and return result_df
Save ==
    /\ pc = "check"
    /\ row_i > Len(filtered_df.rows)
    /\ output' = Some(pdf_status)
    /\ writes' = writes + 1
    /\ pc' = "Completed"
    /\ UNCHANGED <<current_date, check_date, expected_weekdays, expected_dates, folder,
                   sel_i, cv, sub, error_messages, combined_df, filtered_df, row_i,
                   pdf_status, tree, output0, raised>>

(***************************************************************************)
(* Inputs: reference dates, report files, search trees                     *)
(***************************************************************************)
sDateCol == <<"D","a","t","e">>
sUpdateDate == <<"U","p","d","a","t","e"," ","D","a","t","e">>
sTransformer == <<"T","r","a","n","s","f","o","r","m","e","r">>
sswitch == <<"s","w","i","t","c","h">>

DateText(y, m, d) == Pad4(y) \o <<"-">> \o Pad2(m) \o <<"-">> \o Pad2(d)

d0501 == Str(DateText(2024, 5, 1))
d0603 == Str(DateText(2024, 6, 3))
d0604pm == Str(<<"2","0","2","4","-","0","6","-","0","4"," ","1","3",":","3","0">>)
d0605 == Str(DateText(2024, 6, 5))
d0606 == Str(DateText(2024, 6, 6))
d0607 == Str(DateText(2024, 6, 7))

nB1 == Str(<<"B","1">>)
nb1sp == Str(<<" ","b","1"," ">>)
nZ9 == Str(<<"Z","9">>)
nT1 == Str(<<"T","1">>)
nM7 == Str(<<"M"," ","7">>)
nEmpty == Str(<<>>)
n101 == Num(<<"1","0","1">>)

tCB == Str(sCircuitBreaker)
tSW == Str(sSwitch)
tTR == Str(sTransformer)
tsw == Str(sswitch)

Cols3 == <<sDateCol, sEquipmentName, sEquipmentType>>

\* report tables for the selector: every way a file can be unusable, and
\* usable ones whose newest date is 06-06, 06-04 and (first date column) 06-07
TEmpty == DataFrame(Cols3, <<>>)
TNoDate == DataFrame(<<sEquipmentName, sEquipmentType>>, << <<nB1, tSW>> >>)
TBadDate == DataFrame(Cols3, << <<d0606, nB1, tSW>>, <<Str(<<"n","/","a">>), nZ9, tCB>> >>)
TNaT == DataFrame(Cols3, << <<NaN, nB1, tSW>> >>)
TOld == DataFrame(Cols3, << <<d0501, nB1, tSW>> >>)
T0606 == DataFrame(Cols3, << <<d0605, nB1, tSW>>, <<d0606, nZ9, tCB>>, <<NaN, nT1, tTR>> >>)
T0604 == DataFrame(Cols3, << <<d0604pm, nB1, tSW>>, <<d0603, nZ9, tCB>> >>)
TTwoDates == DataFrame(<<sUpdateDate, sEquipmentName, sEquipmentType, sDateCol>>,
                       << <<d0607, nB1, tSW, d0606>> >>)

SelContents == {Unreadable, File(TEmpty), File(TNoDate), File(TBadDate), File(TNaT),
                File(TOld), File(T0606), File(T0604), File(TTwoDates)}

\* report tables for the pipeline, all dated inside the window
PFull == DataFrame(Cols3, << <<d0606, nB1, tCB>>, <<d0606, nT1, tTR>>, <<d0605, nZ9, tSW>> >>)
PNoType == DataFrame(<<sDateCol, sEquipmentName>>, << <<d0606, nZ9>> >>)
PTransformers == DataFrame(Cols3, << <<d0606, nT1, tTR>>, <<d0606, nB1, tsw>> >>)
PNoName == DataFrame(Cols3, << <<d0606, nM7, tSW>>, <<d0606, NaN, tSW>> >>)
PNumbers == DataFrame(<<sEquipmentType, sEquipmentName, sDateCol>>,
                      << <<tCB, n101, d0606>> >>)
PRepeats == DataFrame(<<sEquipmentType, sEquipmentName, sDateCol>>,
                      << <<tSW, nb1sp, d0607>>, <<NaN, nB1, d0607>>, <<tCB, nb1sp, d0606>> >>)

PipeContents == {Unreadable, File(TOld), File(PFull), File(PNoType), File(PTransformers),
                 File(PNoName), File(PNumbers), File(PRepeats)}

\* the folders holding at most n of the named files
FoldersUpTo(names, contents, n) ==
    UNION {[D -> contents] : D \in {X \in SUBSET names : Cardinality(X) <= n}}

WorkdayLabels == {weekdays[i] : i \in 1..5}
ReportNames(report_type, labels) == {report_filename(report_type, l) : l \in labels}

\* file names of the search tree
fb1 == <<"b","1",".","p","d","f">>
fxB1y == <<"x","_","B","1","_","y",".","P","D","F">>
fBpdf1 == <<"B",".","p","d","f","1",".","p","d","f">>
fb1txt == <<"b","1",".","t","x","t">>
fM7 == <<"M"," ","7",".","p","d","f">>
FileNames == {fb1, fxB1y, fBpdf1, fb1txt, fM7}

Tree(files) == [exists |-> TRUE, files |-> files]
NoRoot == [exists |-> FALSE, files |-> [d \in Dirs |-> {}]]

\* the trees with the files of the set X of <<directory, name>> pairs
TreeOf(X) == Tree([d \in Dirs |-> {f \in FileNames : <<d, f>> \in X}])
TreesUpTo(n) ==
    {TreeOf(X) : X \in {Y \in SUBSET (Dirs \X FileNames) : Cardinality(Y) <= n}}
    \cup {NoRoot}

\* bounds of the input sets
RefSpan == 14
SelRefSpan == 2
PipeRefSpan == 1
MaxFiles == 2
MaxTreeFiles == 2

RefHours == {0, 13}
RefDates(first, span, hours) ==
    {24 * day + h : day \in first..(first + span - 1), h \in hours}

NoFrame == DataFrame(<<>>, <<>>)
OldOutput == Some(<<Entry(nT1, tSW, "Missing", <<>>)>>)

\* the part of the initial state every specification shares
InitCommon ==
    /\ check_date = current_date
    /\ sel_i = 1
    /\ cv = NotFound
    /\ sub = NotFound
    /\ error_messages = <<>>
    /\ combined_df = NoFrame
    /\ filtered_df = NoFrame
    /\ row_i = 1
    /\ pdf_status = <<>>
    /\ output0 = output
    /\ writes = 0
    /\ raised = ""

(***************************************************************************)
(* Spec: a run of check_pdf_status                                         *)
(***************************************************************************)
PipeLabels == {weekdays[2], weekdays[4]}
PipeFolders ==
    {[n \in DOMAIN a \cup DOMAIN b |-> IF n \in DOMAIN a THEN a[n] ELSE b[n]] :
        a \in FoldersUpTo(ReportNames(sCompositeView, PipeLabels), PipeContents, 1),
        b \in FoldersUpTo(ReportNames(sSubstation, PipeLabels), PipeContents, 1)}
PipeTrees == {NoRoot,
              TreeOf({<<DirB, fxB1y>>, <<DirC, fb1>>}),
              TreeOf({<<DirA, fM7>>, <<DirB, fb1txt>>})}

Init ==
    /\ pc = "window"
    /\ current_date \in RefDates(ymd2ord(2024, 6, 10), PipeRefSpan, {9})
    /\ expected_weekdays = <<>>
    /\ expected_dates = <<>>
    /\ folder \in PipeFolders
    /\ tree \in PipeTrees
    /\ output \in {None, OldOutput}
    /\ InitCommon

Next ==
    \/ WindowStep
    \/ WindowReturn
    \/ Probe
    \/ SelectorReturnNone
    \/ Validate
    \/ Combine
    \/ Filter
    \/ CheckRow
    \/ Save

Spec == Init /\ [][Next]_vars

(***************************************************************************)
(* SpecWindow: get_expected_weekdays_and_dates alone                       *)
(***************************************************************************)
InitWindow ==
    /\ pc = "window"
    /\ current_date \in RefDates(ymd2ord(2024, 6, 1), RefSpan, RefHours)
    /\ expected_weekdays = <<>>
    /\ expected_dates = <<>>
    /\ folder = <<>>
    /\ tree = NoRoot
    /\ output = None
    /\ InitCommon

NextWindow ==
    \/ WindowStep
    \/ WindowReturn

SpecWindow == InitWindow /\ [][NextWindow]_vars

(***************************************************************************)
(* SpecSelect: find_and_validate_report alone, for either report type      *)
(***************************************************************************)
InitSelect ==
    /\ pc \in {"select_cv", "select_sub"}
    /\ current_date \in RefDates(ymd2ord(2024, 6, 10), SelRefSpan, {9})
    /\ expected_weekdays = get_expected_weekdays_and_dates(current_date)[1]
    /\ expected_dates = get_expected_weekdays_and_dates(current_date)[2]
    /\ folder \in FoldersUpTo(ReportNames(report_type_at(pc), WorkdayLabels),
                              SelContents, MaxFiles)
    /\ tree = NoRoot
    /\ output = None
    /\ InitCommon

NextSelect ==
    \/ Probe
    \/ SelectorReturnNone

SpecSelect == InitSelect /\ [][NextSelect]_vars

(***************************************************************************)
(* SpecLocate: find_pdf alone, called for one equipment row                *)
(***************************************************************************)
Identifiers == {nB1, nb1sp, nZ9, nM7, nEmpty, NaN, n101}

InitLocate ==
    /\ pc = "check"
    /\ current_date \in RefDates(ymd2ord(2024, 6, 10), 1, {9})
    /\ expected_weekdays = get_expected_weekdays_and_dates(current_date)[1]
    /\ expected_dates = get_expected_weekdays_and_dates(current_date)[2]
    /\ folder = <<>>
    /\ tree \in TreesUpTo(MaxTreeFiles)
    /\ output = None
    /\ sel_i = 1
    /\ cv = NotFound
    /\ sub = NotFound
    /\ error_messages = <<>>
    /\ combined_df = NoFrame
    /\ \E name \in Identifiers :
          filtered_df = DataFrame(<<sEquipmentName, sEquipmentType>>, << <<name, tSW>> >>)
    /\ check_date = current_date
    /\ row_i = 1
    /\ pdf_status = <<>>
    /\ output0 = output
    /\ writes = 0
    /\ raised = ""

NextLocate == CheckRow

SpecLocate == InitLocate /\ [][NextLocate]_vars

(***************************************************************************)
(* Properties                                                              *)
(***************************************************************************)
Monday0610 == ymd2ord(2024, 6, 10)

\* the weekday of a day number, counted from a known Monday: 0 = Monday
DayIndex(day) == (day - Monday0610 + 7000) % 7

\* the Monday-to-Friday days at or before the reference day, and the k-th
\* most recent of them
WorkdaysUpTo(day) == {d \in (day - 13)..day : DayIndex(d) < 5}
NthRecent(day, k) ==
    CHOOSE d \in WorkdaysUpTo(day) : Cardinality({e \in WorkdaysUpTo(day) : e > d}) = k - 1

WindowReturned == pc = "select_cv"

\* C4: the window loop ends within a week of days, and what it returns is
\* exactly the 5 most recent Monday-to-Friday dates at or before the
\* reference date, most recent first, strictly decreasing, none a Saturday
\* or Sunday, each label the weekday of its date; for Monday 2024-06-10 it
\* is Mon 06-10, Fri 06-07, Thu 06-06, Wed 06-05, Tue 06-04.
C4_WindowIsLastFiveWorkdays ==
    /\ pc = "window" => check_date >= current_date - 7 * 24
    /\ WindowReturned =>
         /\ Len(expected_weekdays) = 5
         /\ Len(expected_dates) = 5
         /\ \A k \in 1..5 :
              /\ WellFormedDate(expected_dates[k])
              /\ ParseDate(expected_dates[k]) = 24 * NthRecent(DayOf(current_date), k)
              /\ DayIndex(DayOf(ParseDate(expected_dates[k]))) < 5
              /\ expected_weekdays[k] = weekdays[DayIndex(DayOf(ParseDate(expected_dates[k]))) + 1]
         /\ \A k \in 1..4 : ParseDate(expected_dates[k]) > ParseDate(expected_dates[k + 1])
         /\ DayOf(current_date) = Monday0610 =>
              /\ expected_weekdays = <<weekdays[1], weekdays[5], weekdays[4], weekdays[3],
                                       weekdays[2]>>
              /\ expected_dates = << <<"2","0","2","4","-","0","6","-","1","0">>, <<"2","0","2","4","-","0","6","-","0","7">>, <<"2","0","2","4","-","0","6","-","0","6">>, <<"2","0","2","4","-","0","6","-","0","5">>, <<"2","0","2","4","-","0","6","-","0","4">> >>

\* the window of a Sunday afternoon has been returned: it starts on the
\* Friday before and spans the weekend
C4_Witness ==
    /\ WindowReturned
    /\ current_date = 24 * (Monday0610 - 1) + 13
    /\ expected_dates[1] = DateText(2024, 6, 7)
    /\ expected_weekdays[5] = weekdays[1]

(* the selector's candidates, judged without the validator's code *)
FirstDateColumn(df) ==
    CHOOSE c \in 1..Len(df.columns) :
        /\ contains(lower(df.columns[c]), sdate)
        /\ \A b \in 1..(c - 1) : ~contains(lower(df.columns[b]), sdate)

\* why a loaded table is unusable for the window, or "Valid"
Verdict(df, dates) ==
    IF Len(df.rows) = 0 THEN "EmptyTable"
    ELSE IF \A c \in 1..Len(df.columns) : ~contains(lower(df.columns[c]), sdate)
    THEN "NoDateColumn"
    ELSE LET c == FirstDateColumn(df)
             texts == {df.rows[r][c].s : r \in {q \in 1..Len(df.rows) : df.rows[q][c].k = "str"}}
         IN  IF (\E t \in texts : ~WellFormedDate(t)) \/ texts = {}
             THEN "DateParseError"
             ELSE IF \E t \in texts :
                       /\ \A u \in texts : ParseDate(u) <= ParseDate(t)
                       /\ InList(SubSeq(t, 1, 10), dates)
             THEN "Valid"
             ELSE "DateOutOfWindow"

\* the two selector results with their report types, once returned
Returned ==
    (IF pc \in {"select_cv", "window"} THEN {} ELSE {<<sCompositeView, cv>>})
    \cup (IF pc \in {"select_cv", "select_sub", "window"} \/ raised = "read_csv"
          THEN {} ELSE {<<sSubstation, sub>>})

\* C2: a record the selector returns carries the newest date of the first
\* date column of the file it names, and that date is one of the window's
\* dates (any of them, whatever weekday the file name carries).
C2_ReturnedDateInWindow ==
    \A x \in Returned :
        x[2].df # None =>
            LET df == x[2].df[1]
                date == x[2].date[1]
                c == FirstDateColumn(df)
            IN  /\ x[2].file[1] \in DOMAIN folder
                /\ folder[x[2].file[1]] = File(df)
                /\ InList(date, expected_dates)
                /\ \E r \in 1..Len(df.rows) :
                       df.rows[r][c].k = "str" /\ SubSeq(df.rows[r][c].s, 1, 10) = date
                /\ \A r \in 1..Len(df.rows) :
                       df.rows[r][c].k = "str" =>
                           DayOf(ParseDate(df.rows[r][c].s)) <= DayOf(ParseDate(date))

\* the Monday file was returned with a date of the Thursday before, the
\* newest of its rows
C2_Witness ==
    /\ pc = "select_sub"
    /\ cv.df = Some(T0606)
    /\ cv.file = Some(report_filename(sCompositeView, weekdays[1]))
    /\ cv.date = Some(DateText(2024, 6, 6))

\* the file of a report type for a weekday label is there and valid
ValidCandidate(report_type, label) ==
    /\ report_filename(report_type, label) \in DOMAIN folder
    /\ folder[report_filename(report_type, label)].loadable
    /\ Verdict(folder[report_filename(report_type, label)].df, expected_dates) = "Valid"

\* C1: of the valid candidates in the window the selector returns the one
\* with the most recent window date.
C1_MostRecentValidWins ==
    \A x \in Returned :
        x[2].df # None =>
            \A k \in 1..Len(expected_weekdays) :
                x[2].file[1] = report_filename(x[1], expected_weekdays[k]) =>
                    \A j \in 1..(k - 1) : ~ValidCandidate(x[1], expected_weekdays[j])

\* C8: a candidate file that loads but is unusable (no rows, no date
\* column, unparsable dates, newest date outside the window) makes the
\* selector move on to the next weekday label, once, without raising and
\* without returning; and no error of the validator ever leaves the selector.
C8_UnusableCandidateSkipped ==
    [][ /\ raised' # "validate_report_date"
        /\ ( /\ pc \in {"select_cv", "select_sub"}
             /\ sel_i <= Len(expected_weekdays)
             /\ candidate \in DOMAIN folder
             /\ folder[candidate].loadable
             /\ Verdict(folder[candidate].df, expected_dates) # "Valid" )
           => /\ pc' = pc
              /\ sel_i' = sel_i + 1
              /\ cv' = cv /\ sub' = sub
              /\ raised' = raised ]_vars

\* a file with an unparsable date column was passed over and a later
\* candidate was returned
C8_Witness ==
    /\ pc = "select_sub"
    /\ cv.df # None
    /\ \E i, j \in 1..5 :
          /\ i < j
          /\ cv.file[1] = report_filename(sCompositeView, probe_order(expected_weekdays)[j])
          /\ report_filename(sCompositeView, probe_order(expected_weekdays)[i]) \in DOMAIN folder
          /\ folder[report_filename(sCompositeView, probe_order(expected_weekdays)[i])]
                = File(TBadDate)

\* the pipeline is past the validation of the two selector results
PastValidation ==
    \/ pc \in {"AbortedMissingReports", "combine", "filter", "check",
               "AbortedMissingColumns", "AbortedNoMatchingEquipment", "Completed"}
    \/ pc = "Raised" /\ raised = "find_pdf"

\* some file of the report type in the window is valid
HasValidCandidate(report_type) ==
    \E k \in 1..Len(expected_weekdays) : ValidCandidate(report_type, expected_weekdays[k])

\* C3: each selector result depends on the folder alone, not on the other
\* selector (Substation is looked for also when CompositeView was not
\* found); the run aborts for missing reports exactly when at least one
\* result is NotFound, and the messages then name exactly those categories.
C3_AbortIffAReportMissing ==
    PastValidation =>
        /\ cv.df = None <=> ~HasValidCandidate(sCompositeView)
        /\ sub.df = None <=> ~HasValidCandidate(sSubstation)
        /\ pc = "AbortedMissingReports" <=> (cv.df = None \/ sub.df = None)
        /\ pc = "AbortedMissingReports" =>
              [i \in 1..Len(error_messages) |-> error_messages[i].category]
                 = (IF cv.df = None THEN <<sCompositeView>> ELSE <<>>)
                   \o (IF sub.df = None THEN <<sSubstation>> ELSE <<>>)

\* CompositeView was found, Substation has no file at all, and the abort
\* names Substation alone
C3_Witness ==
    /\ pc = "AbortedMissingReports"
    /\ cv.df # None
    /\ \A n \in DOMAIN folder : ~startswith(n, sSubstation)
    /\ Len(error_messages) = 1
    /\ error_messages[1].category = sSubstation

\* the Equipment Name and Equipment Type of the rows of a frame, NaN where
\* the frame has no such column
CellOf(df, r, col) ==
    IF \E c \in 1..Len(df.columns) : df.columns[c] = col
    THEN df.rows[r][CHOOSE c \in 1..Len(df.columns) : df.columns[c] = col]
    ELSE NaN
NamesAndTypes(df) ==
    [r \in 1..Len(df.rows) |-> <<CellOf(df, r, sEquipmentName), CellOf(df, r, sEquipmentType)>>]

\* the rows of the merged table that the type filter keeps, in order
KeptRows ==
    SelectSeq(NamesAndTypes(cv.df[1]) \o NamesAndTypes(sub.df[1]),
              LAMBDA nt : nt[2].k = "str" /\ nt[2].s \in {sCircuitBreaker, sSwitch})

\* C5: a completed run has one entry per merged row (CompositeView rows,
\* then Substation rows) of type Circuit Breaker or Switch, none for any
\* other row, in the order of those rows, each with the row's name and type.
C5_EntriesAreFilteredRowsInOrder ==
    pc = "Completed" =>
        /\ Len(pdf_status) = Len(KeptRows)
        /\ \A i \in 1..Len(pdf_status) :
              /\ pdf_status[i].name = KeptRows[i][1]
              /\ pdf_status[i].type = KeptRows[i][2]

\* a completed run over a Substation table with a Transformer row between
\* two kept rows and a CompositeView table with a row that has no type
C5_Witness ==
    /\ pc = "Completed"
    /\ cv.df = Some(PRepeats)
    /\ sub.df = Some(PFull)
    /\ Len(pdf_status) = 4
    /\ pdf_status[3].name = nB1
    /\ pdf_status[4].name = nZ9

\* the files under the search root, as <<directory, name>>
FilesUnderRoot ==
    IF tree.exists THEN UNION {{<<d, f>> : f \in tree.files[d]} : d \in Dirs} ELSE {}

\* the rule of the locator as the design states it: a .pdf file whose
\* lower-cased name contains the trimmed lower-cased identifier, or whose
\* name without the trailing extension equals it
RuleMatch(file, identifier) ==
    /\ Len(file) >= 4
    /\ lower(SubSeq(file, Len(file) - 3, Len(file))) = sPdf
    /\ \/ contains(lower(file), lower(strip(identifier)))
       \/ lower(SubSeq(file, 1, Len(file) - 4)) = lower(strip(identifier))

\* C6: find_pdf returns the path of a file that satisfies the rule, and
\* nothing exactly when no file under the root satisfies it.
C6_LocatorFollowsRule ==
    \A i \in 1..Len(pdf_status) :
        LET e == pdf_status[i] IN
        /\ e.status = "Exists" =>
              \E x \in FilesUnderRoot :
                  e.path = path_join(x[1], x[2]) /\ RuleMatch(x[2], e.name.s)
        /\ e.status = "Missing" <=>
              ~\E x \in FilesUnderRoot : RuleMatch(x[2], e.name.s)

\* C7: the output file is written at most once, only on reaching
\* Completed and then with all entries; a run that aborts has written
\* nothing and the file that was there before is unchanged.
C7_OutputWrittenOnlyOnCompletion ==
    /\ writes <= 1
    /\ writes = 1 =>
          /\ pc = "Completed"
          /\ output = Some(pdf_status)
          /\ Len(pdf_status) = Len(filtered_df.rows)
    /\ writes = 0 => output = output0
    /\ pc \in {"AbortedMissingReports", "AbortedMissingColumns",
               "AbortedNoMatchingEquipment"} => writes = 0 /\ output = output0
    /\ pc = "Completed" => writes = 1

\* a run aborted because no row has an accepted type, with the earlier
\* output file still in place
C7_Witness ==
    /\ pc = "AbortedNoMatchingEquipment"
    /\ output0 = OldOutput
    /\ output = OldOutput
    /\ writes = 0

\* C9: an entry is Exists with the path of a file under the search root
\* that matches its equipment name, or Missing with an empty path; it is
\* Missing exactly when no file under the root matches, whatever the order
\* of the walk.
C9_StatusIffSomeFileMatches ==
    \A i \in 1..Len(pdf_status) :
        LET e == pdf_status[i] IN
        /\ \/ /\ e.status = "Exists"
              /\ e.path # <<>>
              /\ \E x \in FilesUnderRoot :
                    e.path = path_join(x[1], x[2]) /\ name_matches(x[2], strip(e.name.s))
           \/ e.status = "Missing" /\ e.path = <<>>
        /\ e.status = "Missing" <=>
              ~\E x \in FilesUnderRoot : name_matches(x[2], strip(e.name.s))

\* a completed run with a document found in a nested folder and another
\* equipment without any document
C9_Witness ==
    /\ pc = "Completed"
    /\ \E i, j \in 1..Len(pdf_status) :
          /\ pdf_status[i].status = "Exists"
          /\ pdf_status[i].path = path_join(DirC, fb1)
          /\ pdf_status[j].status = "Missing"
          /\ pdf_status[j].path = <<>>

\* C10: a run never stops on an unhandled error; it ends Completed or
\* Aborted.
C10_NoUnhandledError == pc # "Raised"

====
